---- MODULE Spec2Model ----
(***************************************************************************)
(* A model of the lead scraper: the URL normalizer                         *)
(* (clean_and_validate_url, in discover_sites.py and in correct_sheet.py), *)
(* the per-URL pipeline analyze_site, and the run of main with its worker  *)
(* pool.                                                                   *)
(*                                                                         *)
(* Strings are modelled as sequences of tokens (URLs) or as sets of text   *)
(* fragments (page text); every string function of the code is modelled by *)
(* what it does to those tokens and fragments.                             *)
(***************************************************************************)
EXTENDS Integers, Sequences, FiniteSets, TLC

VARIABLES
    \* clean_and_validate_url, applied twice
    impl, raw, cleaned, again, upc,
    \* the names bound in the module namespace of discover_sites.py
    namespace,
    \* one call of analyze_site
    site, site_url, outcome, spc,
    \* main: the sheet's URLs as read at the start, existing_urls, the number
    \* of fresh phrases of the category the loop is in, the category and the
    \* phrase the loops are at, urls_to_check, used_this_run (the list of the
    \* phrases searched, held as its length), the futures of the pool, what
    \* log_used_phrases wrote
    sheet_urls, existing_urls, nphrases, cat, phrase, pc, urls_to_check,
    used_this_run, future, logged,
    \* history of the run: the URLs the last search returned and the URLs
    \* that two phrases returned (both while the category is being searched),
    \* the submissions per URL, the
    \* URLs submitted while in existing_urls, the results the main thread
    \* took per URL, the calls of save_to_gsheet per URL
    last_found, repeated, submits, known_submitted, handled, saved

uvars == << impl, raw, cleaned, again, upc >>
svars == << namespace, site, site_url, outcome, spc >>
mvars == << sheet_urls, existing_urls, nphrases, cat, phrase, pc, urls_to_check,
           used_this_run, future, logged, last_found, repeated, submits,
           known_submitted, handled, saved >>
vars == << uvars, svars, mvars >>

\* Python's None: no string is this sequence.
None == << "None" >>

(***************************************************************************)
(* URL strings.  A URL string is a sequence of tokens; the string is the   *)
(* concatenation of its tokens.  "http:" and "https:" only ever end a      *)
(* string (they are what is left of a scheme token when a host is cut at   *)
(* its first "/").                                                         *)
(***************************************************************************)
MaxUrlLen == 4

UrlTokens == {"http://", "https://", "/", "?", "#", " ",
              "shop", "www.", "blog", "amazon.com"}

RECURSIVE SeqsUpTo(_, _)
SeqsUpTo(S, n) ==
    IF n = 0 THEN {<< >>}
    ELSE LET shorter == SeqsUpTo(S, n - 1)
         IN  shorter \cup {Append(s, t) : s \in {x \in shorter : Len(x) = n - 1}, t \in S}

RawUrls == SeqsUpTo(UrlTokens, MaxUrlLen)

BLACKLISTED_DOMAINS ==
    {"amazon.com", "flipkart.com", "myntra.com", "ajio.com", "meesho.com", "nykaa.com",
     "snapdeal.com", "tatacliq.com", "jiomart.com", "pepperfry.com", "limeroad.com",
     "walmart.com", "ebay.com", "etsy.com", "pinterest.com", "facebook.com", "instagram.com",
     "linkedin.com", "twitter.com", "youtube.com", "marketresearch.com", "dataintelo.com"}

SHEET_BLACKLISTED_DOMAINS ==
    {"amazon.com", "amazon.in", "flipkart.com", "myntra.com", "ajio.com", "meesho.com",
     "nykaa.com", "snapdeal.com", "tatacliq.com", "jiomart.com", "pepperfry.com",
     "limeroad.com", "walmart.com", "ebay.com", "etsy.com", "pinterest.com",
     "facebook.com", "instagram.com", "linkedin.com", "twitter.com", "youtube.com"}

NEGATIVE_PATH_KEYWORDS == {"blog", "news", "docs", "forum", "support", "publication"}

\* The tokens that spell "http://" or "https://".
SchemeTokens == {"http://", "https://"}

\* What is left of a scheme token cut before its "//".
ColonOf(t) == IF t = "http://" THEN "http:" ELSE "https:"

\* The characters [^\s?#] of the regular expression: every token but these.
RegexStops == {" ", "?", "#"}

\* re.search(r'https?://[^\s?#]+', url): the leftmost match, the longest run
\* of characters that are not whitespace, "?" or "#"; None without a match.
RegexSearch(url) ==
    LET starts == {i \in 1..(Len(url) - 1) :
                      url[i] \in SchemeTokens /\ url[i + 1] \notin RegexStops}
    IN  IF starts = {} THEN None
        ELSE LET i == CHOOSE k \in starts : \A j \in starts : k <= j
                 ends == {j \in (i + 1)..Len(url) :
                             \A k \in (i + 1)..j : url[k] \notin RegexStops}
                 e == CHOOSE k \in ends : \A j \in ends : j <= k
             IN  SubSeq(url, i, e)

\* The host of a string that starts after "//": everything up to the first
\* "/", "?" or "#".  A scheme token inside it is cut before its "//".
RECURSIVE SplitNetloc(_)
SplitNetloc(rest) ==
    IF rest = << >> THEN << >>
    ELSE IF Head(rest) \in {"/", "?", "#"} THEN << >>
    ELSE IF Head(rest) \in SchemeTokens THEN << ColonOf(Head(rest)) >>
    ELSE << Head(rest) >> \o SplitNetloc(Tail(rest))

\* url.lstrip(' '): urlsplit strips leading spaces.
RECURSIVE LStrip(_)
LStrip(url) ==
    IF url # << >> /\ Head(url) = " " THEN LStrip(Tail(url)) ELSE url

\* The tokens made only of scheme characters (letters, digits, "+", "-", ".").
SchemeCharTokens == {"shop", "www.", "blog", "amazon.com"}

\* The tokens that hold a ":".
ColonTokens == {"http://", "https://", "http:", "https:"}

\* urlparse(url): the scheme (the tokens before the first ":" and the token
\* that holds it) and the netloc.  scheme = << >> when the text before the
\* first ":" is no scheme.
urlparse(url0) ==
    LET url == LStrip(url0)
        colons == {i \in 1..Len(url) : url[i] \in ColonTokens}
        c == IF colons = {} THEN 0 ELSE CHOOSE k \in colons : \A j \in colons : k <= j
        has_scheme == c > 0 /\ \A k \in 1..(c - 1) : url[k] \in SchemeCharTokens
    IN  IF has_scheme
        THEN [scheme |-> SubSeq(url, 1, c),
              netloc |-> IF url[c] \in SchemeTokens
                         THEN SplitNetloc(SubSeq(url, c + 1, Len(url)))
                         ELSE << >>]
        ELSE [scheme |-> << >>,
              netloc |-> IF Len(url) >= 2 /\ url[1] = "/" /\ url[2] = "/"
                         THEN SplitNetloc(SubSeq(url, 3, Len(url)))
                         ELSE << >>]

\* urlunparse((scheme, netloc, '', '', '', '')).  "//" and the netloc follow
\* the scheme when there is a netloc or the scheme is http or https.
urlunparse(scheme, netloc) ==
    IF scheme = << >>
    THEN IF netloc = << >> THEN << >> ELSE << "/", "/" >> \o netloc
    ELSE LET last == scheme[Len(scheme)]
             front == SubSeq(scheme, 1, Len(scheme) - 1)
             word == IF last \in {"http://", "http:"} THEN "http" ELSE "https"
         IN  IF netloc # << >> \/ front = << >>
             THEN front \o << IF word = "http" THEN "http://" ELSE "https://" >> \o netloc
             ELSE front \o << IF word = "http" THEN "http:" ELSE "https:" >>

\* keyword in text, for text given as tokens.
ContainsAny(text, keywords) == \E i \in 1..Len(text) : text[i] \in keywords

\* netloc.replace('www.', '')
DropWww(netloc) == SelectSeq(netloc, LAMBDA t : t # "www.")

\* discover_sites.clean_and_validate_url
clean_and_validate_url(url) ==
    LET url_to_parse == RegexSearch(url)
    IN  IF url_to_parse = None THEN None
        ELSE IF ContainsAny(url_to_parse, NEGATIVE_PATH_KEYWORDS) THEN None
        ELSE LET parsed == urlparse(url_to_parse)
                 cleaned_url == urlunparse(parsed.scheme, parsed.netloc)
                 domain == DropWww(parsed.netloc)
             IN  IF ContainsAny(domain, BLACKLISTED_DOMAINS) THEN None
                 ELSE cleaned_url

\* correct_sheet.clean_and_validate_url
sheet_clean_and_validate_url(url) ==
    LET parsed == urlparse(url)
        cleaned_url == urlunparse(parsed.scheme, parsed.netloc)
        domain == DropWww(parsed.netloc)
    IN  IF ContainsAny(domain, SHEET_BLACKLISTED_DOMAINS) THEN None
        ELSE cleaned_url

Clean(which, url) ==
    IF which = "discover_sites" THEN clean_and_validate_url(url)
    ELSE sheet_clean_and_validate_url(url)

(***************************************************************************)
(* The module namespace.  analyze_site calls unquote (line 168), a name    *)
(* that no import of the file binds: in the namespace the file builds the  *)
(* call raises NameError.  The model also covers the namespace in which    *)
(* urllib.parse.unquote is bound, where the rest of analyze_site runs.     *)
(***************************************************************************)
ImportedNames ==
    {"json", "os", "random", "re", "time", "urljoin", "urlparse", "urlunparse",
     "gspread", "requests", "BeautifulSoup", "logging", "ThreadPoolExecutor",
     "as_completed", "phonenumbers"}

Namespaces == {ImportedNames, ImportedNames \cup {"unquote"}}

(***************************************************************************)
(* Page text.  A text is a set of fragments; "keyword in text" holds when  *)
(* one of its fragments contains the keyword.                              *)
(***************************************************************************)
MaxFragments == 2
MaxPolicyFragments == 1
MaxHints == 2

Fragments ==
    {"GSTIN: 29ABCDE1234F1Z5", "GSTIN: 123456789012345", "Pincode: 560001",
     "Pincode%3A%20560001", "Razorpay", "Made in India", "Whiskey",
     "\"@type\":\"Product\"", "cdn.shopify.com"}

\* str.lower()
Lower(f) ==
    CASE f = "GSTIN: 29ABCDE1234F1Z5" -> "gstin: 29abcde1234f1z5"
      [] f = "GSTIN: 123456789012345" -> "gstin: 123456789012345"
      [] f = "Pincode: 560001" -> "pincode: 560001"
      [] f = "Pincode%3A%20560001" -> "pincode%3a%20560001"
      [] f = "Razorpay" -> "razorpay"
      [] f = "Made in India" -> "made in india"
      [] f = "Whiskey" -> "whiskey"
      [] f = "\"@type\":\"Product\"" -> "\"@type\":\"product\""
      [] OTHER -> f

\* urllib.parse.unquote: percent-escapes decoded.
unquote(f) == IF f = "pincode%3a%20560001" THEN "pincode: 560001" ELSE f

\* The keywords and markers a fragment contains.
WordsIn(f) ==
    CASE f = "whiskey" -> {"whiskey"}
      [] f = "Whiskey" -> { }
      [] f = "razorpay" -> {"razorpay"}
      [] f = "made in india" -> {"india"}
      [] f = "\"@type\":\"product\"" -> {"\"@type\":\"product\""}
      [] f = "cdn.shopify.com" -> {"cdn.shopify.com", "shopify"}
      [] OTHER -> { }

\* any(keyword in text for keyword in keywords)
TextHasAny(text, keywords) == \E f \in text : WordsIn(f) \cap keywords # { }

\* re.search(r'gstin\s*[:\-]?\s*[0-9A-Z]{15}', text): the 15 characters are
\* digits or upper-case letters.
GstinSearch(text) == "gstin: 123456789012345" \in text

\* re.search(r'\b(pincode|pin code|pin)[\s:-]*\d{6}\b', text)
PinSearch(text) == "pincode: 560001" \in text

NEGATIVE_CONTENT_KEYWORDS ==
    {"whiskey", "liquor", "wine", "beer", "alcohol", "market research",
     "consulting firm", "business intelligence"}

INDIAN_TECH_KEYWORDS ==
    {"razorpay", "payu", "instamojo", "shiprocket", "delhivery", "blue dart"}

POLICY_PAGE_HINTS == << "contact", "about", "legal", "policy", "shipping", "terms" >>

\* len(soup.find_all(attrs={'class': ...})) >= 3
MIN_PRODUCT_ELEMENTS == 3

\* The score is kept in tenths: 1 is 10, 0.5 is 5, 0.3 is 3, 1.5 is 15.
COMMERCE_POINTS == 10
HIGH_CONFIDENCE_POINTS == 10
MENTION_POINTS == 5
FALLBACK_POINTS == 3
ACCEPT_SCORE == 15

(***************************************************************************)
(* What the network answers for one URL.                                   *)
(*   status_ok     the GET of the URL answers with a 2xx status            *)
(*   text          response.text                                           *)
(*   cart_button   a button, a or input element labelled add to cart,      *)
(*                 buy now or shop now                                     *)
(*   product_elems elements with a product/item/grid/listing class         *)
(*   links         the policy hints that match a link of the page          *)
(*   policy_fail   the hints whose page cannot be fetched                  *)
(*   policy_text   the text of the policy page that answers                *)
(***************************************************************************)
HintsModelled == {POLICY_PAGE_HINTS[i] : i \in 1..MaxHints}

HintIndex(h) == CHOOSE i \in 1..Len(POLICY_PAGE_HINTS) : POLICY_PAGE_HINTS[i] = h

TextsUpTo(n) == {T \in SUBSET Fragments : Cardinality(T) <= n}

\* The policy page is read for its text, not for its markup.
PolicyTexts ==
    {T \in TextsUpTo(MaxPolicyFragments) :
        T \cap {"\"@type\":\"Product\"", "cdn.shopify.com"} = { }}

\* The failing hints come first in hint order: what follows the first page
\* that answers is never requested.
PolicyWorlds ==
    {w \in [links : SUBSET HintsModelled, policy_fail : SUBSET HintsModelled,
            policy_text : PolicyTexts] :
        /\ w.policy_fail \subseteq w.links
        /\ \A h \in w.policy_fail : \A g \in w.links :
              HintIndex(g) < HintIndex(h) => g \in w.policy_fail
        /\ (w.policy_fail = w.links => w.policy_text = { })}

DeadSite ==
    [status_ok |-> FALSE, text |-> { }, cart_button |-> FALSE, product_elems |-> 0,
     links |-> { }, policy_fail |-> { }, policy_text |-> { }]

Sites ==
    {DeadSite} \cup
    {[status_ok |-> TRUE, text |-> t, cart_button |-> b, product_elems |-> n,
      links |-> w.links, policy_fail |-> w.policy_fail, policy_text |-> w.policy_text] :
        t \in TextsUpTo(MaxFragments), b \in BOOLEAN,
        n \in {MIN_PRODUCT_ELEMENTS - 1, MIN_PRODUCT_ELEMENTS}, w \in PolicyWorlds}

SiteUrls == {<< "https://", "shop" >>, << "https://", "shop", ".in" >>}

\* The result of a call: what it returned or raised, with what it did.
\*   kind    "lead", "none" (returned None) or "raised"
\*   why     "accepted", "fetch", "not_commerce", "negative", "low_score", "NameError"
\*   score   in tenths, as far as it was computed
\*   gets    the HTTP GET requests issued
\*   stages  the steps entered after the fetch
Result(kind, why, score, gets, stages, high, url) ==
    [kind |-> kind, why |-> why, score |-> score, gets |-> gets, stages |-> stages,
     high |-> high, url |-> url]

NoResult == Result("pending", "", 0, 0, { }, FALSE, None)

\* Lines 173-189 with the return of line 189 lost: every page goes on.
CommerceGateOpen(s, html_text) == TRUE

\* Lines 173-183: is_ecommerce.
CommerceGate(s, html_text) ==
    \/ s.cart_button
    \/ s.product_elems >= MIN_PRODUCT_ELEMENTS
    \/ TextHasAny(html_text, {"\"@type\":\"product\""})
    \/ TextHasAny(html_text, {"shopify", "woocommerce", "cdn.shopify.com"})
    \/ TextHasAny(s.text \cap {"cdn.shopify.com"}, {"cdn.shopify.com", "woocommerce"})

\* Line 192.
NegativeContent(html_text) == TextHasAny(html_text, NEGATIVE_CONTENT_KEYWORDS)

\* Lines 199-209: the loop over the hints, from hint i on, after n requests.
\* Returns the requests made, whether a policy page answered, and the text
\* that then replaces page_html_to_check.
RECURSIVE PolicyLoop(_, _, _)
PolicyLoop(s, i, n) ==
    IF i > Len(POLICY_PAGE_HINTS) THEN [gets |-> n, fetched |-> FALSE, text |-> { }]
    ELSE LET hint == POLICY_PAGE_HINTS[i]
         IN  IF hint \notin s.links THEN PolicyLoop(s, i + 1, n)
             ELSE IF hint \in s.policy_fail THEN PolicyLoop(s, i + 1, n + 1)
             ELSE [gets |-> n + 1, fetched |-> TRUE,
                   text |-> {Lower(f) : f \in s.policy_text}]

\* Lines 211-222: is_high_confidence_indian.
HighConfidence(url, html_text, page_html_to_check) ==
    \/ GstinSearch(page_html_to_check)
    \/ PinSearch(page_html_to_check)
    \/ TextHasAny(html_text, INDIAN_TECH_KEYWORDS)
    \/ ContainsAny(urlparse(url).netloc, {".in"})

\* Lines 185-186 and 224-232: the score.
Score(high, html_text) ==
    COMMERCE_POINTS
    + (IF high THEN HIGH_CONFIDENCE_POINTS
       ELSE IF TextHasAny(html_text, {"india"}) THEN MENTION_POINTS ELSE 0)
    + (IF ~high /\ TextHasAny(html_text, {"india"}) THEN FALLBACK_POINTS ELSE 0)

\* analyze_site(url), in namespace ns, with the network answering as s.
analyze_site(ns, url, s) ==
    IF ~s.status_ok THEN Result("none", "fetch", 0, 1, { }, FALSE, None)
    ELSE IF "unquote" \notin ns THEN Result("raised", "NameError", 0, 1, { }, FALSE, None)
    ELSE
      LET html_text == {unquote(Lower(f)) : f \in s.text}
      IN  IF ~CommerceGate(s, html_text)
          THEN Result("none", "not_commerce", 0, 1, {"gate"}, FALSE, None)
          ELSE IF NegativeContent(html_text)
          THEN Result("none", "negative", COMMERCE_POINTS, 1, {"gate", "negative"}, FALSE, None)
          ELSE
            LET policy == PolicyLoop(s, 1, 0)
                page_html_to_check == IF policy.fetched THEN policy.text ELSE html_text
                high == HighConfidence(url, html_text, page_html_to_check)
                score == Score(high, html_text)
                gets == 1 + policy.gets
                stages == {"gate", "negative", "policy", "regional"}
            IN  IF score < ACCEPT_SCORE
                THEN Result("none", "low_score", score, gets, stages, high, None)
                ELSE Result("lead", "accepted", score, gets, stages \cup {"extract"}, high, url)

\* The call runs to its return or to the exception it raises.
AnalyzeSite ==
    /\ spc = "called"
    /\ outcome' = analyze_site(namespace, site_url, site)
    /\ spc' = "returned"
    /\ UNCHANGED << namespace, site, site_url, uvars, mvars >>

(***************************************************************************)
(* main: for every category, the search of each of its fresh phrases and   *)
(* then one worker pool over the URLs found.                               *)
(***************************************************************************)
NumCats == 2
MaxPhrases == 2

\* ThreadPoolExecutor(max_workers=8)
MAX_WORKERS == 8

\* The links the search API returns.
RawLinks ==
    {<< "https://", "shop", ".in", "/", "shop" >>,
     << "https://", "shop", ".in", "?", "shop" >>,
     << "http://", "www.", "shop" >>,
     << "https://", "amazon.com", "/", "shop" >>}

\* bool(x) of a string or None.
Truthy(x) == x # None /\ x # << >>

CleanUrls == {clean_and_validate_url(l) : l \in RawLinks} \ {None}

\* The URLs column 1 of the sheet may hold.
SheetUrls == {<< "https://", "shop", ".in" >>}

\* What the network answers to the workers of main.
StoreSite ==
    [status_ok |-> TRUE, text |-> {"Razorpay"}, cart_button |-> TRUE,
     product_elems |-> MIN_PRODUCT_ELEMENTS, links |-> { }, policy_fail |-> { },
     policy_text |-> { }]

PlainSite ==
    [status_ok |-> TRUE, text |-> {"Made in India"}, cart_button |-> FALSE,
     product_elems |-> MIN_PRODUCT_ELEMENTS - 1, links |-> { }, policy_fail |-> { },
     policy_text |-> { }]

MainSites == {DeadSite, StoreSite, PlainSite}

\* A future of the pool: not in the pool, queued, running, finished with what
\* the call returned or raised, or taken by the main thread.
Idle == [state |-> "idle", kind |-> "", url |-> None]
Queued == [state |-> "queued", kind |-> "", url |-> None]
Running == [state |-> "running", kind |-> "", url |-> None]

ResultKinds == {"lead", "none", "raised"}

\* Where the loop over the categories goes after category c.
AfterCategory(c) == IF c + 1 > NumCats THEN "log" ELSE "category"

\* Line 304: a category without fresh phrases is skipped.
SkipCategory ==
    /\ pc = "category"
    /\ cat' = cat + 1
    /\ pc' = AfterCategory(cat)
    /\ UNCHANGED << sheet_urls, existing_urls, nphrases, phrase, urls_to_check,
                    used_this_run, future, logged, last_found, repeated, submits,
                    known_submitted, handled, saved, uvars, svars >>

\* Lines 305-306: a category with n fresh phrases starts with an empty
\* urls_to_check.
EnterCategory ==
    /\ pc = "category"
    /\ \E n \in 1..MaxPhrases : nphrases' = n
    /\ phrase' = 1
    /\ urls_to_check' = { }
    /\ last_found' = { }
    /\ repeated' = { }
    /\ pc' = "search"
    /\ UNCHANGED << sheet_urls, existing_urls, cat, used_this_run, future, logged,
                    submits, known_submitted, handled, saved, uvars, svars >>

\* Line 316 for each link the search may return.
base_url == [l \in RawLinks |-> clean_and_validate_url(l)]

\* Lines 315-317 without the test against existing_urls.
CandidatesUnfiltered(links, existing) ==
    {b \in {base_url[l] : l \in links} : Truthy(b)}

\* Lines 315-317: the cleaned links that are kept for the pool.
Candidates(links, existing) ==
    {b \in {base_url[l] : l \in links} : Truthy(b) /\ b \notin existing}

\* Lines 308-319: the search of one phrase.  A failed request is logged and
\* the phrase is not counted as used.
Search ==
    /\ pc = "search"
    /\ phrase <= nphrases
    /\ \E ok \in BOOLEAN, links \in SUBSET RawLinks :
          IF ok
          THEN /\ urls_to_check' = urls_to_check \cup Candidates(links, existing_urls)
               /\ used_this_run' = used_this_run + 1
               /\ LET found == {base_url[l] : l \in links} \ {None}
                  IN  /\ last_found' = found
                      /\ repeated' = repeated \cup (found \cap urls_to_check)
          ELSE /\ links = { }
               /\ last_found' = { }
               /\ UNCHANGED << urls_to_check, used_this_run, repeated >>
    /\ phrase' = phrase + 1
    /\ UNCHANGED << sheet_urls, existing_urls, nphrases, cat, pc, future, logged,
                    submits, known_submitted, handled, saved, uvars, svars >>

\* Lines 321-322: the loop over the phrases is over; every URL of
\* urls_to_check is submitted to the pool.
SubmitAll ==
    /\ pc = "search"
    /\ phrase > nphrases
    /\ nphrases' = 0
    /\ phrase' = 0
    /\ last_found' = { }
    /\ repeated' = { }
    /\ future' = [u \in CleanUrls |-> IF u \in urls_to_check THEN Queued ELSE Idle]
    /\ submits' = [u \in CleanUrls |-> submits[u] + (IF u \in urls_to_check THEN 1 ELSE 0)]
    /\ known_submitted' = known_submitted \cup (urls_to_check \cap existing_urls)
    /\ pc' = "pool"
    /\ UNCHANGED << sheet_urls, existing_urls, cat, urls_to_check, used_this_run,
                    logged, handled, saved, uvars, svars >>

\* A free worker of the pool takes a queued call.
WorkerStart(u) ==
    /\ pc = "pool"
    /\ future[u].state = "queued"
    /\ Cardinality({v \in CleanUrls : future[v].state = "running"}) < MAX_WORKERS
    /\ future' = [future EXCEPT ![u] = Running]
    /\ UNCHANGED << sheet_urls, existing_urls, nphrases, cat, phrase, pc, urls_to_check,
                    used_this_run, logged, last_found, repeated, submits,
                    known_submitted, handled, saved, uvars, svars >>

\* The worker's call of analyze_site(u) returns or raises.
WorkerFinish(u) ==
    /\ pc = "pool"
    /\ future[u].state = "running"
    /\ \E s \in MainSites :
          LET r == analyze_site(namespace, u, s)
          IN  future' = [future EXCEPT
                            ![u] = [state |-> "finished", kind |-> r.kind, url |-> r.url]]
    /\ UNCHANGED << sheet_urls, existing_urls, nphrases, cat, phrase, pc, urls_to_check,
                    used_this_run, logged, last_found, repeated, submits,
                    known_submitted, handled, saved, uvars, svars >>

\* Lines 323-329 without the try of line 324: the exception of a call leaves
\* main.
ConsumeUncaught(u) ==
    /\ pc = "pool"
    /\ future[u].state = "finished"
    /\ LET r == future[u]
       IN  /\ future' = [future EXCEPT ![u] = [r EXCEPT !.state = "consumed"]]
           /\ IF r.kind = "raised"
              THEN /\ pc' = "aborted"
                   /\ UNCHANGED << handled, saved, existing_urls >>
              ELSE /\ pc' = pc
                   /\ handled' = [handled EXCEPT ![u][r.kind] = @ + 1]
                   /\ IF r.kind = "lead"
                      THEN /\ saved' = [saved EXCEPT ![r.url] = @ + 1]
                           /\ existing_urls' = existing_urls \cup {r.url}
                      ELSE UNCHANGED << saved, existing_urls >>
    /\ UNCHANGED << sheet_urls, nphrases, cat, phrase, urls_to_check, used_this_run,
                    logged, last_found, repeated, submits, known_submitted, uvars,
                    svars >>

\* Lines 323-329: the main thread takes one finished future.  future.result()
\* re-raises the exception of the call, which line 329 logs.  A lead is
\* passed to save_to_gsheet, which logs gspread's APIError and returns, and
\* lets any other exception of worksheet.append_row through: line 329 logs
\* that one too, and line 328 (existing_urls.add) is then not reached.
Consume(u) ==
    /\ pc = "pool"
    /\ future[u].state = "finished"
    /\ LET r == future[u]
       IN  /\ handled' = [handled EXCEPT ![u][r.kind] = @ + 1]
           /\ future' = [future EXCEPT ![u] = [r EXCEPT !.state = "consumed"]]
           /\ IF r.kind = "lead"
              THEN /\ saved' = [saved EXCEPT ![r.url] = @ + 1]
                   /\ \E returns \in BOOLEAN :
                         existing_urls' = IF returns THEN existing_urls \cup {r.url}
                                          ELSE existing_urls
              ELSE UNCHANGED << saved, existing_urls >>
    /\ UNCHANGED << sheet_urls, nphrases, cat, phrase, pc, urls_to_check, used_this_run,
                    logged, last_found, repeated, submits, known_submitted, uvars,
                    svars >>

\* The with block ends when every future is done; the loop goes on to the
\* next category.  future_to_url stays bound until line 322 binds it again.
PoolExit ==
    /\ pc = "pool"
    /\ \A u \in CleanUrls : future[u].state \in {"idle", "consumed"}
    /\ cat' = cat + 1
    /\ pc' = AfterCategory(cat)
    /\ UNCHANGED << sheet_urls, existing_urls, nphrases, phrase, urls_to_check,
                    used_this_run, future, logged, last_found, repeated, submits,
                    known_submitted, handled, saved, uvars, svars >>

\* Lines 331-332: log_used_phrases(used_this_run) and the completion message.
LogUsedPhrases ==
    /\ pc = "log"
    /\ logged' = [written |-> TRUE, phrases |-> used_this_run]
    /\ pc' = "done"
    /\ UNCHANGED << sheet_urls, existing_urls, nphrases, cat, phrase, urls_to_check,
                    used_this_run, future, last_found, repeated, submits,
                    known_submitted, handled, saved, uvars, svars >>

Next ==
    \/ SkipCategory
    \/ EnterCategory
    \/ Search
    \/ SubmitAll
    \/ \E u \in CleanUrls : WorkerStart(u)
    \/ \E u \in CleanUrls : WorkerFinish(u)
    \/ \E u \in CleanUrls : Consume(u)
    \/ PoolExit
    \/ LogUsedPhrases

\* The first call, on the raw string.
Normalize ==
    /\ upc = "raw"
    /\ cleaned' = Clean(impl, raw)
    /\ upc' = "cleaned"
    /\ UNCHANGED << impl, raw, again, svars, mvars >>

\* The second call, on the value the first one returned.
Renormalize ==
    /\ upc = "cleaned"
    /\ cleaned # None
    /\ again' = Clean(impl, cleaned)
    /\ upc' = "again"
    /\ UNCHANGED << impl, raw, cleaned, svars, mvars >>

(***************************************************************************)
(* The three specifications: two calls of clean_and_validate_url, one call *)
(* of analyze_site, one run of main.  Each leaves the state of the others  *)
(* idle.                                                                   *)
(***************************************************************************)
UrlIdle == impl = "" /\ raw = << >> /\ cleaned = None /\ again = None /\ upc = "off"

SiteIdle ==
    site = DeadSite /\ site_url = << >> /\ outcome = NoResult /\ spc = "off"

MainIdle ==
    /\ sheet_urls = { } /\ existing_urls = { } /\ nphrases = 0
    /\ cat = 0 /\ phrase = 0 /\ pc = "off" /\ urls_to_check = { }
    /\ used_this_run = 0 /\ future = << >>
    /\ logged = [written |-> FALSE, phrases |-> 0]
    /\ last_found = { } /\ repeated = { } /\ submits = << >>
    /\ known_submitted = { } /\ handled = << >> /\ saved = << >>

UrlInit ==
    /\ SiteIdle /\ MainIdle /\ namespace = ImportedNames
    /\ impl \in {"discover_sites", "correct_sheet"}
    /\ raw \in RawUrls
    /\ cleaned = None
    /\ again = None
    /\ upc = "raw"

UrlNext == Normalize \/ Renormalize

SpecUrl == UrlInit /\ [][UrlNext]_vars

SiteInit ==
    /\ UrlIdle /\ MainIdle
    /\ namespace \in Namespaces
    /\ site \in Sites
    /\ site_url \in SiteUrls
    /\ outcome = NoResult
    /\ spc = "called"

SiteNext == AnalyzeSite

SpecSite == SiteInit /\ [][SiteNext]_vars

MainInit ==
    /\ UrlIdle /\ SiteIdle
    /\ namespace \in Namespaces
    /\ sheet_urls \in SUBSET SheetUrls
    /\ existing_urls = sheet_urls
    /\ nphrases = 0
    /\ cat = 1 /\ phrase = 0 /\ pc = "category"
    /\ urls_to_check = { }
    /\ used_this_run = 0
    /\ future = [u \in CleanUrls |-> Idle]
    /\ logged = [written |-> FALSE, phrases |-> 0]
    /\ last_found = { } /\ repeated = { }
    /\ submits = [u \in CleanUrls |-> 0]
    /\ known_submitted = { }
    /\ handled = [u \in CleanUrls |-> [k \in ResultKinds |-> 0]]
    /\ saved = [u \in CleanUrls \cup SheetUrls |-> 0]

Spec == MainInit /\ [][Next]_vars

(***************************************************************************)
(* The pages the statements about analyze_site speak of, read off the      *)
(* answer of the network.                                                  *)
(***************************************************************************)
Returned == spc = "returned"

\* The text holds one of the keywords, in any letter case.
Mentions(text, keywords) == \E f \in text : WordsIn(Lower(f)) \cap keywords # { }

\* A 15-character tax ID after "GSTIN".
HasTaxId(text) ==
    text \cap {"GSTIN: 29ABCDE1234F1Z5", "GSTIN: 123456789012345"} # { }

\* A six-digit PIN code, written plainly or percent-encoded.
HasPin(text) == text \cap {"Pincode: 560001", "Pincode%3A%20560001"} # { }

\* One of the four commerce indicators is on the page.
CommerceIndicator(s) ==
    \/ s.cart_button
    \/ s.product_elems >= MIN_PRODUCT_ELEMENTS
    \/ "\"@type\":\"Product\"" \in s.text
    \/ "cdn.shopify.com" \in s.text

\* The call got as far as the policy pages and one of them answered.
SecondaryFetched ==
    /\ Returned
    /\ "policy" \in outcome.stages
    /\ site.links \ site.policy_fail # { }

\* The primary text with the text of the secondary page that was fetched.
ScoredCorpus == site.text \cup (IF SecondaryFetched THEN site.policy_text ELSE { })

\* The page answered, has a commerce indicator and no negative keyword.
Scorable ==
    /\ Returned
    /\ site.status_ok
    /\ CommerceIndicator(site)
    /\ ~Mentions(site.text \cup site.policy_text, NEGATIVE_CONTENT_KEYWORDS)

\* A tax ID, a PIN code, an Indian payment or logistics keyword, or a .in host.
StrongRegionalEvidence(text) ==
    \/ HasTaxId(text)
    \/ HasPin(text)
    \/ Mentions(text, INDIAN_TECH_KEYWORDS)
    \/ ContainsAny(urlparse(site_url).netloc, {".in"})

\* C1: for a page that passes the commerce gate and has no negative keyword,
\* a bare mention of "india" as the only regional evidence gives the score
\* 1.5 (1 + 0.5) and a lead; no regional evidence at all gives the score 1
\* and no lead; and a lead is returned exactly when the score is at least 1.5.
C1_BareMentionScoresOneAndAHalf ==
    Scorable =>
        LET text == site.text \cup site.policy_text
            mention == Mentions(text, {"india"})
        IN  /\ (mention /\ ~StrongRegionalEvidence(text)) =>
                  /\ outcome.score = COMMERCE_POINTS + MENTION_POINTS
                  /\ outcome.kind = "lead"
            /\ (~mention /\ ~StrongRegionalEvidence(text)) =>
                  /\ outcome.score = COMMERCE_POINTS
                  /\ outcome.kind = "none"
            /\ (outcome.kind = "lead") <=> (outcome.score >= ACCEPT_SCORE)

\* C1, the failing page: a cart button, "Made in India" and nothing else, on
\* a host outside .in.  The call raises NameError at line 168.
C1_BareMentionPageRaises ==
    /\ Returned
    /\ namespace = ImportedNames
    /\ site.status_ok /\ site.cart_button
    /\ site.text = {"Made in India"} /\ site.links = { }
    /\ site_url = << "https://", "shop" >>
    /\ outcome.kind = "raised"

C3_TaxIdIsAccepted ==
    (Scorable /\ "GSTIN: 29ABCDE1234F1Z5" \in site.text) =>
        /\ outcome.score >= ACCEPT_SCORE
        /\ outcome.kind = "lead"

\* C3, the failing page: with unquote bound, the lower-cased tax ID does not
\* match [0-9A-Z]{15} and the page is rejected for its score.
C3_TaxIdPageRejected ==
    /\ Scorable
    /\ "unquote" \in namespace
    /\ site.text = {"GSTIN: 29ABCDE1234F1Z5"} /\ site.links = { }
    /\ outcome.why = "low_score"
    /\ outcome.score = COMMERCE_POINTS

C9_NoCommerceIndicatorShortCircuits ==
    (Returned /\ site.status_ok /\ ~CommerceIndicator(site)) =>
        /\ outcome.kind # "lead"
        /\ outcome.url = None
        /\ outcome.gets = 1
        /\ outcome.stages \cap {"negative", "policy", "regional", "extract"} = { }
        /\ "unquote" \in namespace =>
              (outcome.kind = "none" /\ outcome.why = "not_commerce")

\* C9, the case: the gate turned down a page on a .in host that mentions
\* India, has a PIN code and links to a policy page.
C9_GateRejectedRegionalPage ==
    /\ Returned
    /\ ~CommerceIndicator(site)
    /\ site.text = {"Made in India", "Pincode: 560001"}
    /\ site.links # { }
    /\ site_url = << "https://", "shop", ".in" >>
    /\ outcome.why = "not_commerce"

(***************************************************************************)
(* The statements about clean_and_validate_url and about the run of main.  *)
(***************************************************************************)
\* C8: clean_and_validate_url returns its own result unchanged: whenever it
\* returns c for a raw string, it returns c for c.
C8_CleanIsIdempotent == upc = "again" => again = cleaned

\* C8, the failing string: "http:///shop" is cleaned to "http://", which
\* the function of discover_sites.py then turns down.
C8_EmptyHostCleanedThenRejected ==
    /\ upc = "again"
    /\ impl = "discover_sites"
    /\ raw = << "http://", "/", "shop" >>
    /\ cleaned = << "http://" >>
    /\ again = None

\* The pools started so far.
PoolsStarted == IF pc = "pool" THEN cat ELSE cat - 1

\* C5 as stated: over the whole run, no URL is submitted to analyze_site
\* more than once.
C5_EachUrlSubmittedOncePerRun == \A u \in CleanUrls : submits[u] <= 1

\* C5 as amended: a URL is submitted at most once per category, and never
\* while it is in existing_urls (read from the sheet, or added after its
\* lead was saved); a URL that was rejected, failed or raised may be
\* submitted again in a later category.
C5_SubmittedOncePerCategoryUnlessKnown ==
    /\ known_submitted = { }
    /\ pc = "search" => urls_to_check \cap existing_urls = { }
    /\ \A u \in CleanUrls : submits[u] <= PoolsStarted

\* C5, the case: a search of a later category returned a URL saved earlier,
\* which is left out, and returned for the second time in this category a
\* URL that was analysed before without a lead, which is queued once more.
C5_KnownUrlSkippedRejectedUrlQueuedAgain ==
    /\ pc = "search"
    /\ \E u \in last_found \cap existing_urls :
          /\ saved[u] = 1
          /\ u \notin urls_to_check
    /\ \E v \in repeated \cap urls_to_check :
          /\ submits[v] >= 1
          /\ handled[v]["lead"] = 0

\* The futures of the current pool whose result the main thread has not
\* taken yet.
Outstanding(u) ==
    IF pc = "pool" /\ future[u].state \in {"queued", "running", "finished"} THEN 1 ELSE 0

\* C7: an exception or a failed fetch in one call of analyze_site gives no
\* lead for that URL and nothing else: main never stops before the end,
\* every submitted call's result is taken by the main thread, exactly the
\* leads are passed to save_to_gsheet, the run can always go on until it is
\* done, and when it is done log_used_phrases has run with every phrase that
\* was searched.
C7_WorkerFailureStaysLocal ==
    /\ pc \in {"category", "search", "pool", "log", "done"}
    /\ \A u \in CleanUrls :
          /\ handled[u]["lead"] + handled[u]["none"] + handled[u]["raised"]
                = submits[u] - Outstanding(u)
          /\ saved[u] = handled[u]["lead"]
    /\ pc # "done" => ENABLED Next
    /\ pc = "done" => (logged.written /\ logged.phrases = used_this_run /\ cat = NumCats + 1)

\* C7, the case: the run is done; in its last pool one call raised and the
\* result of another call was taken all the same.
C7_RunDoneAfterACallRaised ==
    /\ pc = "done"
    /\ logged.written
    /\ \E u, v \in CleanUrls :
          /\ u # v
          /\ future[u].state = "consumed" /\ future[u].kind = "raised"
          /\ future[v].state = "consumed" /\ future[v].kind \in {"none", "lead"}

====
